---------------------------- MODULE Spec2Model ----------------------------
(***************************************************************************)
(* A model of econtools.metrics: one call of reg() or ivreg() run through  *)
(* the worker pipeline RegBase.__init__ -> set_sample -> estimate ->       *)
(* get_vce -> set_dof -> inference (src/econtools/metrics/core.py), with   *)
(* the sampling helpers of src/econtools/metrics/regutil.py.               *)
(*                                                                         *)
(* Conventions.  A Python None that stands for a missing name or a null    *)
(* cell is the string "None".  An optional value of another type is a      *)
(* sequence: <<>> for None / attribute not set, <<v>> for the value v.     *)
(* Floating point linear algebra is not computed: beta and the bread are   *)
(* symbolic records of what they were formed from; whether a Gram matrix   *)
(* is singular, the eigenvalue of LIML and the rounding of the raw         *)
(* (unsymmetrized) VCE are functions of the data, drawn here from small    *)
(* sets fixed with the input (the variable fp), and numbers that the code  *)
(* scales are exact rationals num/den.                                     *)
(***************************************************************************)
EXTENDS Integers, Sequences, FiniteSets, TLC

VARIABLES
    pc,       \* position of the call in RegBase.main
    err,      \* the exception that ended the call, if any
    args,     \* the arguments of the call to reg / ivreg
    df,       \* the caller's table
    fp,       \* what floating point makes of the table's numbers in this call
    self,     \* the worker object (Regression or IVReg)
    results,  \* self.results, the Results object under construction
    ret,      \* what reg / ivreg returned to the caller
    read      \* the last property of the returned Results the caller read

vars == <<pc, err, args, df, fp, self, results, ret, read>>

-----------------------------------------------------------------------------
(* Bounds of the model *)

\* Number of rows of the caller's table
MaxRows == 4
\* Number of null cells in the caller's table
MaxNulls == 1

-----------------------------------------------------------------------------
(* Option values *)

None == <<>>
Some(v) == <<v>>
IsNone(o) == o = <<>>
Val(o) == o[1]

\* Python truthiness of a column name (str or None)
Truthy(name) == name \notin {"None", ""}

SeqToSet(s) == {s[i] : i \in 1..Len(s)}

RECURSIVE SubsetsUpTo(_, _)
SubsetsUpTo(S, k) ==
    IF k = 0 THEN {{}}
    ELSE LET prev == SubsetsUpTo(S, k - 1)
         IN  prev \cup {s \cup {e} : s \in prev, e \in S}

-----------------------------------------------------------------------------
(* The caller's table: named columns, cells are "None" (null) or a value *)

GroupVals == {"g1", "g2"}
ClusterVals == {"c1", "c2"}
Cols == {"y", "x1", "g", "c", "lon", "lat", "wt", "z1", "z2", "w1"}

MkRow(i, gs, cs, nulls) ==
    [col \in Cols |->
        IF <<i, col>> \in nulls THEN "None"
        ELSE IF col = "g" THEN gs[i]
        ELSE IF col = "c" THEN cs[i]
        ELSE "v"]

MkTable(n, gs, cs, nulls) == [i \in 1..n |-> MkRow(i, gs, cs, nulls)]

\* every assignment of the rows to groups (clusters), up to renaming: the
\* first row is in g1 (c1)
AnyGroups(n) == {f \in [1..n -> GroupVals] : f[1] = "g1"}
OneGroup(n) == {[i \in 1..n |-> "g1"]}
AnyClusters(n) == {f \in [1..n -> ClusterVals] : f[1] = "c1"}
\* clusters c1, c2, c1, ... down the rows
Alternating(n) == {[i \in 1..n |-> IF i % 2 = 1 THEN "c1" ELSE "c2"]}

\* the tables of n rows with the given group and cluster columns and at most
\* maxNulls null cells, all of them in the columns nullCols
TablesOver(n, groups, clusters, nullCols, maxNulls) ==
    { MkTable(n, gs, cs, nulls) :
        gs \in groups,
        cs \in clusters,
        nulls \in SubsetsUpTo((1..n) \X nullCols, maxNulls) }

-----------------------------------------------------------------------------
(* VCE-kind resolution *)

valid_vce == {"None", "robust", "hc1", "hc2", "hc3", "cluster", "shac"}

Ok(v) == [raised |-> FALSE, exc |-> "", cause |-> "", val |-> v]
Raise(e, c) == [raised |-> TRUE, exc |-> e, cause |-> c, val |-> "None"]

\* the conflict test of _set_vce_type with the shac_err term dropped
_vce_conflict_no_shac_err(vce_type, cluster, shac) ==
    LET cluster_err == Truthy(cluster) /\ (vce_type # "cluster" /\ vce_type # "None")
    IN  (Truthy(cluster) /\ ~IsNone(shac)) \/ cluster_err

_vce_conflict(vce_type, cluster, shac) ==
    LET cluster_err == Truthy(cluster) /\ (vce_type # "cluster" /\ vce_type # "None")
        shac_err    == ~IsNone(shac) /\ (vce_type # "shac" /\ vce_type # "None")
    IN  (Truthy(cluster) /\ ~IsNone(shac)) \/ cluster_err \/ shac_err

\* _set_vce_type without its checks: the kind is only resolved
_set_vce_type_unchecked(vce_type, cluster, shac) ==
    IF Truthy(cluster) THEN Ok("cluster")
    ELSE IF ~IsNone(shac) THEN Ok("shac")
    ELSE Ok(vce_type)

_set_vce_type(vce_type, cluster, shac) ==
    IF vce_type \notin valid_vce THEN Raise("ValueError", "invalid_vce")
    ELSE IF _vce_conflict(vce_type, cluster, shac)
         THEN Raise("ValueError", "vce_conflict")
    ELSE IF Truthy(cluster) THEN Ok("cluster")
    ELSE IF ~IsNone(shac) THEN Ok("shac")
    ELSE Ok(vce_type)

\* regutil.unpack_spatialargs, imported by core.py as unpack_shac_args
unpack_shac_args(argdict) ==
    IF IsNone(argdict)
    THEN [x |-> "None", y |-> "None", band |-> None, kern |-> "None"]
    ELSE [x |-> Val(argdict).x, y |-> Val(argdict).y,
          band |-> Some(Val(argdict).band), kern |-> Val(argdict).kern]


-----------------------------------------------------------------------------
(* Sample Builder helpers (regutil.py) *)

\* force_list on a scalar column name that may be None
AsList(name) == IF name = "None" THEN <<>> ELSE <<name>>

\* the value of the argument a sample_cols label names, as a list of columns
NamesOf(s, label) ==
    CASE label = "y_name"   -> AsList(s.y_name)
      [] label = "x_name"   -> s.x_name
      [] label = "a_name"   -> AsList(s.a_name)
      [] label = "cluster"  -> AsList(s.cluster)
      [] label = "shac_x"   -> AsList(s.shac_x)
      [] label = "shac_y"   -> AsList(s.shac_y)
      [] label = "awt_name" -> AsList(s.awt_name)
      [] label = "z_name"   -> s.z_name
      [] label = "w_name"   -> s.w_name

RECURSIVE Flatten(_)
Flatten(ss) == IF ss = <<>> THEN <<>> ELSE Head(ss) \o Flatten(Tail(ss))

\* sample_cols of RegBase.set_sample, flattened as flag_sample flattens it
sample_cols(s) ==
    Flatten([k \in 1..Len(s.sample_cols_labels) |->
                NamesOf(s, s.sample_cols_labels[k])])

\* flag_sample with one sample column forgotten (the last one)
flag_sample_drop_last(d, varlist) ==
    [i \in 1..Len(d) |->
        \A k \in 1..(Len(varlist) - 1) : d[i][varlist[k]] # "None"]

flag_sample(d, varlist) ==
    [i \in 1..Len(d) |-> \A k \in 1..Len(varlist) : d[i][varlist[k]] # "None"]

\* flag_nonsingletons counting groups over the whole table, not the sample
flag_nonsingletons_whole_table(d, avar, sample) ==
    [i \in 1..Len(d) |->
        /\ d[i][avar] # "None"
        /\ Cardinality({j \in 1..Len(d) : d[j][avar] = d[i][avar]}) > 1]

\* groupby().size() over df[sample] drops null keys; the join leaves rows
\* without a counted key at NaN, which fillna(0) turns into 0
flag_nonsingletons(d, avar, sample) ==
    [i \in 1..Len(d) |->
        /\ d[i][avar] # "None"
        /\ Cardinality({j \in 1..Len(d) :
                            sample[j] /\ d[j][avar] = d[i][avar]}) > 1]

MaskAnd(a, b) == [i \in 1..Len(a) |-> a[i] /\ b[i]]

\* positions of the True rows of a mask, in row order
RowsOf(sample) ==
    LET idx == {i \in 1..Len(sample) : sample[i]}
    IN  [k \in 1..Cardinality(idx) |->
            CHOOSE i \in idx : Cardinality({j \in idx : j < i}) = k - 1]

\* df.loc[sample, name].copy().reset_index(drop=True) for one column
Series(d, sample, name) ==
    LET rows == RowsOf(sample)
    IN  [name |-> name, values |-> [k \in 1..Len(rows) |-> d[rows[k]][name]]]

\* the same for a list of columns; the cells are numeric and not tracked,
\* ops records the transformations applied to the copy, and shares whether
\* the object shares its data with the caller's table (.copy() makes it own
\* its data)
Frame(d, sample, names) ==
    [columns |-> names, n |-> Len(RowsOf(sample)), ops |-> <<>>, fitted |-> {},
     shares |-> FALSE]

\* _set_samp_core: None passes through, a name is extracted
set_sample_col(d, sample, name) ==
    IF name = "None" THEN None ELSE Some(Series(d, sample, name))

Empty(frame) == frame.n = 0 \/ Len(frame.columns) = 0
\* astype, the subtraction of _demean and multiply each return a new object
Apply(frame, op) == [frame EXCEPT !.ops = @ \o <<op>>, !.shares = FALSE]

\* _demean leaves None and empty frames alone
_demean(A, frame) == IF Empty(frame) THEN frame ELSE Apply(frame, "demean")

Distinct(series) == SeqToSet(series.values)

-----------------------------------------------------------------------------
(* Degrees of freedom (core.py) *)

\* for each group, the clusters it has rows in: pair_counts grouped by the
\* group level and counted
ClustersOfGroup(cluster_id, A, grp) ==
    {cluster_id.values[i] : i \in {j \in 1..Len(A.values) : A.values[j] = grp}}

\* the nesting test read the other way round: each cluster holds one group
_fe_nested_groups_per_cluster(cluster_id, A) ==
    IF IsNone(cluster_id) \/ IsNone(A) THEN FALSE
    ELSE IF Val(cluster_id).name = Val(A).name THEN TRUE
    ELSE \A c \in Distinct(Val(cluster_id)) :
            Cardinality({Val(A).values[i] :
                i \in {j \in 1..Len(Val(A).values) :
                          Val(cluster_id).values[j] = c}}) = 1

\* num_of_clusters.max() == 1; the max of an empty count is NaN, and
\* NaN == 1 is False
_fe_nested_in_cluster(cluster_id, A) ==
    IF IsNone(cluster_id) \/ IsNone(A) THEN FALSE
    ELSE IF Val(cluster_id).name = Val(A).name THEN TRUE
    ELSE /\ Distinct(Val(A)) # {}
         /\ \A grp \in Distinct(Val(A)) :
                Cardinality(ClustersOfGroup(Val(cluster_id), Val(A), grp)) = 1

\* a degrees-of-freedom result: df, the scalar vce_correct as num/den, g
DofOk(d, num, den, g) ==
    [raised |-> FALSE, exc |-> "", df |-> d, num |-> num, den |-> den, g |-> g]
DofRaise(e) ==
    [raised |-> TRUE, exc |-> e, df |-> 0, num |-> 0, den |-> 1, g |-> None]

df_std(n, k) ==
    IF n - k = 0 THEN DofRaise("ZeroDivisionError")
    ELSE DofOk(n - k, n, n - k, None)

df_hc23(n, k) == DofOk(n - k, 1, 1, None)

\* df_cluster with the residual degrees of freedom of the other estimators
df_cluster_n_minus_k(n, k, cluster_id) ==
    LET g == Cardinality(Distinct(cluster_id))
    IN  IF n - k = 0 \/ g - 1 = 0 THEN DofRaise("ZeroDivisionError")
        ELSE DofOk(n - k, (n - 1) * g, (n - k) * (g - 1), Some(g))

df_cluster(n, k, cluster_id) ==
    LET g == Cardinality(Distinct(cluster_id))
    IN  IF n - k = 0 \/ g - 1 = 0 THEN DofRaise("ZeroDivisionError")
        ELSE DofOk(g - 1, (n - 1) * g, (n - k) * (g - 1), Some(g))

df_shac(n, k) == DofOk(n - k, 1, 1, None)

-----------------------------------------------------------------------------
(* The worker object and the Results object *)

\* attributes of the worker before RegBase.__init__ has run
NoWorker ==
    [y_name |-> "None", x_name |-> <<>>, z_name |-> <<>>, w_name |-> <<>>,
     a_name |-> "None", cluster |-> "None", awt_name |-> "None",
     nosingles |-> FALSE, addcons |-> FALSE, nocons |-> FALSE,
     iv_method |-> "None", _kappa_debug |-> None,
     vce_type |-> "None",
     shac_x |-> "None", shac_y |-> "None", shac_band |-> None,
     shac_kern |-> "None",
     sample_cols_labels |-> <<>>, sample_store_labels |-> <<>>,
     vars_in_reg |-> <<>>, add_constant_to |-> "None",
     sample |-> None, y |-> None, x |-> None, z |-> None, w |-> None,
     A |-> None, cluster_id |-> None, AWT |-> None,
     shac_x_col |-> None, shac_y_col |-> None,
     y_raw |-> None, Xhat |-> None, Xtrue |-> None, kappa_eig |-> None]

\* a Results object none of whose statistics is set yet
EmptyResults ==
    [beta |-> None, xpx_inv |-> None, _sst |-> None, _r2 |-> None,
     _r2_a |-> None, iv_method |-> None, kappa |-> None,
     vce |-> None, yhat |-> None, resid |-> None, sample |-> None,
     g |-> None, N |-> None, K |-> None, df_t |-> None, _df_r |-> None,
     _vce_correct |-> None, _nocons |-> None,
     se |-> None, t_stat |-> None, pt |-> None, ci_lo |-> None,
     ci_hi |-> None,
     _summary |-> None, _df_m |-> None, _ssr |-> None, _F |-> None,
     _pF |-> None]

NoErr == [exc |-> "", cause |-> ""]

\* RegBase.__init__ after _set_vce_type has returned new_vce
RegBase__init__(a, new_vce) ==
    LET sp == unpack_shac_args(a.shac)
    IN  [NoWorker EXCEPT
            !.y_name = a.y_name, !.x_name = a.x_name,
            !.a_name = a.a_name, !.cluster = a.cluster,
            !.awt_name = a.awt_name, !.nosingles = a.nosingles,
            !.addcons = a.addcons, !.nocons = a.nocons,
            !.iv_method = a.iv_method, !._kappa_debug = a._kappa_debug,
            !.sample_cols_labels = <<"y_name", "x_name", "a_name", "cluster",
                                     "shac_x", "shac_y", "awt_name">>,
            !.sample_store_labels = <<"y", "x", "A", "cluster_id", "shac_x",
                                      "shac_y", "AWT">>,
            !.vars_in_reg = <<"y", "x">>,
            !.add_constant_to = "x",
            !.vce_type = new_vce,
            !.shac_x = sp.x, !.shac_y = sp.y, !.shac_band = sp.band,
            !.shac_kern = sp.kern]

\* IVReg.__init__ after the base constructor
IVReg__init__(a, base) ==
    [base EXCEPT
        !.z_name = a.z_name, !.w_name = a.w_name,
        !.sample_cols_labels = @ \o <<"z_name", "w_name">>,
        !.sample_store_labels = @ \o <<"z", "w">>,
        !.vars_in_reg = @ \o <<"z", "w">>,
        !.add_constant_to = "w"]

\* reg() / ivreg() building the worker: the configuration is checked here
Construct ==
    /\ pc = "entry"
    /\ LET r == _set_vce_type(args.vce_type, args.cluster, args.shac)
       IN  IF r.raised
           THEN /\ pc' = "failed"
                /\ err' = [exc |-> r.exc, cause |-> r.cause]
                /\ self' = self
           ELSE /\ pc' = "constructed"
                /\ err' = err
                /\ self' = IF args.fn = "ivreg"
                           THEN IVReg__init__(args, RegBase__init__(args, r.val))
                           ELSE RegBase__init__(args, r.val)
    /\ UNCHANGED <<args, df, fp, results, ret, read>>

-----------------------------------------------------------------------------
(* RegBase.set_sample *)

IsIV(s) == Len(s.vars_in_reg) = 4

\* the mask: flag_sample, then the singleton filter on the current sample
sample_mask(s, d) ==
    LET flagged == flag_sample(d, sample_cols(s))
    IN  IF s.nosingles /\ Truthy(s.a_name)
        THEN MaskAnd(flagged, flag_nonsingletons(d, s.a_name, flagged))
        ELSE flagged

\* the constant replacing only a frame without columns
add_cons_no_columns_only(frame, nrows) ==
    IF Len(frame.columns) = 0
    THEN [columns |-> <<"_cons">>, n |-> nrows, ops |-> <<>>, fitted |-> {},
          shares |-> FALSE]
    ELSE [frame EXCEPT !.columns = @ \o <<"_cons">>]

\* the constant appended to the frame add_constant_to names; x.empty holds
\* of a frame without columns and of a frame without rows
add_cons(frame, nrows) ==
    IF Empty(frame)
    THEN [columns |-> <<"_cons">>, n |-> nrows, ops |-> <<>>, fitted |-> {},
          shares |-> FALSE]
    ELSE [frame EXCEPT !.columns = @ \o <<"_cons">>]

\* x['_cons'] = _cons written to the caller's table whatever x is bound to
table_after_setitem_through(d, frame, col) ==
    [i \in 1..Len(d) |->
        [c \in (DOMAIN d[i]) \cup {col} |-> IF c = col THEN "v" ELSE d[i][c]]]

\* the caller's table after x[col] = ... : the assignment is in place, so it
\* reaches the table only if x shares its data with the table
table_after_setitem(d, frame, col) ==
    IF frame.shares
    THEN [i \in 1..Len(d) |->
            [c \in (DOMAIN d[i]) \cup {col} |->
                IF c = col THEN "v" ELSE d[i][c]]]
    ELSE d

\* the caller's table after set_sample: its one in-place column assignment
\* is the constant, made on the float64 copy of the frame add_constant_to names
table_after_set_sample(s, d, sample) ==
    IF s.a_name = "None" /\ s.addcons
    THEN LET names  == IF s.add_constant_to = "w" THEN s.w_name ELSE s.x_name
             target == Apply(Frame(d, sample, names), "float64")
         IN  IF Empty(target) THEN d
             ELSE table_after_setitem(d, target, "_cons")
    ELSE d

\* one regression variable through float coercion, demeaning or constant
\* injection, and weighting
prepare_var(s, var, frame, nrows) ==
    LET floated  == Apply(frame, "float64")
        centered == IF s.a_name # "None" THEN _demean(s.A, floated)
                    ELSE IF s.addcons /\ s.add_constant_to = var
                         THEN add_cons(floated, nrows)
                    ELSE floated
    IN  IF s.awt_name # "None" THEN Apply(centered, "weight") ELSE centered

SetSample ==
    /\ pc = "constructed"
    /\ LET sample == sample_mask(self, df)
           n  == Len(RowsOf(sample))
           y0 == Frame(df, sample, <<self.y_name>>)
           x0 == Frame(df, sample, self.x_name)
           z0 == Frame(df, sample, self.z_name)
           w0 == Frame(df, sample, self.w_name)
           s1 == [self EXCEPT
                    !.sample = Some(sample),
                    !.A = set_sample_col(df, sample, self.a_name),
                    !.cluster_id = set_sample_col(df, sample, self.cluster),
                    !.shac_x_col = set_sample_col(df, sample, self.shac_x),
                    !.shac_y_col = set_sample_col(df, sample, self.shac_y),
                    !.AWT = set_sample_col(df, sample, self.awt_name)]
       IN  self' = [s1 EXCEPT
                !.y_raw = IF self.a_name # "None"
                          THEN Some(Apply(y0, "float64")) ELSE None,
                !.y = Some(prepare_var(s1, "y", y0, n)),
                !.x = Some(prepare_var(s1, "x", x0, n)),
                !.z = IF IsIV(self) THEN Some(prepare_var(s1, "z", z0, n))
                      ELSE None,
                !.w = IF IsIV(self) THEN Some(prepare_var(s1, "w", w0, n))
                      ELSE None]
    /\ df' = table_after_set_sample(self, df, sample_mask(self, df))
    /\ pc' = "sampled"
    /\ UNCHANGED <<err, args, fp, results, ret, read>>

-----------------------------------------------------------------------------
(* estimate: Regression.estimate and IVReg.estimate *)

\* Largest off-diagonal entry of the raw VCE estimate
MaxVce == 1

\* values the minimum eigenvalue of _liml_kappa may take (scaled integers)
KappaEigVals == {2, 3}

\* the numerical outcomes of a call: singular is whether la.inv meets a
\* singular matrix, eig the minimum eigenvalue, up and lo the entries of the
\* upper and lower triangle of the raw sandwich product
Numerics(singulars, eigs, ups, los) ==
    [singular : singulars, eig : eigs, up : ups, lo : los]

\* pd.concat((a, b), axis=1)
Concat(a, b) ==
    [columns |-> a.columns \o b.columns, n |-> a.n, ops |-> a.ops,
     fitted |-> a.fitted \cup b.fitted, shares |-> FALSE]

\* _first_stage: Xhat has every x column replaced by its projection on (z, w)
_first_stage(x, w, z) ==
    LET X == Concat(x, w)
    IN  [Xhat  |-> [X EXCEPT !.fitted = SeqToSet(x.columns)],
         Xtrue |-> X]

\* fitguts: beta labelled by the columns of x, and the bread
fitguts(y, x, kappa) ==
    [beta    |-> [index |-> x.columns, fitted |-> x.fitted, kappa |-> kappa],
     xpx_inv |-> [index |-> x.columns, fitted |-> x.fitted, kappa |-> kappa]]

\* kappa selection with the override tested for truth, not for None
liml_kappa_truthy_override(x, z, _kappa_debug, eig) ==
    IF ~IsNone(_kappa_debug) /\ Val(_kappa_debug) # 0 THEN Val(_kappa_debug)
    ELSE IF Len(x.columns) = Len(z.columns) THEN 1
    ELSE eig

\* the kappa _liml uses: the override, else 1 if exactly identified, else
\* the eigenvalue-derived value
liml_kappa(x, z, _kappa_debug, eig) ==
    IF ~IsNone(_kappa_debug) THEN Val(_kappa_debug)
    ELSE IF Len(x.columns) = Len(z.columns) THEN 1
    ELSE eig

\* _liml: beta formed with kappa; returns (beta, bread, Z, X, kappa)
_liml(y, x, z, w, _kappa_debug, vce_type, eig) ==
    LET Z == Concat(z, w)
        X == Concat(x, w)
        kappa == liml_kappa(x, z, _kappa_debug, eig)
    IN  [beta    |-> [index |-> X.columns, fitted |-> {}, kappa |-> Some(kappa)],
         xpx_inv |-> [index |-> IF vce_type = "None" THEN X.columns
                                ELSE Z.columns,
                      fitted |-> {}, kappa |-> Some(kappa)],
         Xhat |-> Z, Xtrue |-> X, kappa |-> kappa]

\* the Results object IVReg.estimate leaves; kappa is the local of the
\* LIML branch, unbound (None here) on the 2SLS branch
iv_results(method, fit, kappa) ==
    [EmptyResults EXCEPT
        !.beta = Some(fit.beta), !.xpx_inv = Some(fit.xpx_inv),
        !._sst = Some("y"), !._r2 = Some("nan"), !._r2_a = Some("nan"),
        !.iv_method = Some(method),
        !.kappa = IF method = "liml" THEN kappa ELSE None]

EstimateFails(exc, cause) ==
    /\ pc' = "failed"
    /\ err' = [exc |-> exc, cause |-> cause]
    /\ UNCHANGED <<self, results>>

\* la.inv raises on an exactly singular Gram matrix: an empty sample gives
\* one, and collinear data (fp.singular) gives one for any sample
Estimate ==
    /\ pc = "sampled"
    /\ LET y == Val(self.y)
           x == Val(self.x)
       IN  IF IsIV(self) /\ self.iv_method \notin {"2sls", "liml"}
           THEN \* the message reads self.method, an attribute no IVReg has
                EstimateFails("AttributeError", "unsupported_iv_method")
           ELSE IF fp.singular \/ x.n = 0
                THEN EstimateFails("LinAlgError", "singular_matrix")
                ELSE IF ~IsIV(self)
                THEN /\ LET fit == fitguts(y, x, None)
                        IN  results' = Some([EmptyResults EXCEPT
                                            !.beta = Some(fit.beta),
                                            !.xpx_inv = Some(fit.xpx_inv),
                                            !._sst = Some("y")])
                     /\ pc' = "estimated"
                     /\ UNCHANGED <<err, self>>
                ELSE IF self.iv_method = "2sls"
                THEN /\ LET fs  == _first_stage(x, Val(self.w), Val(self.z))
                            fit == fitguts(y, fs.Xhat, None)
                        IN  /\ self' = [self EXCEPT !.Xhat = Some(fs.Xhat),
                                                    !.Xtrue = Some(fs.Xtrue)]
                            /\ results' = Some(iv_results("2sls", fit, None))
                     /\ pc' = "estimated"
                     /\ err' = err
                ELSE /\ LET fit == _liml(y, x, Val(self.z), Val(self.w),
                                         self._kappa_debug, self.vce_type,
                                         fp.eig)
                        IN  /\ self' = [self EXCEPT
                                            !.Xhat = Some(fit.Xhat),
                                            !.Xtrue = Some(fit.Xtrue),
                                            !.kappa_eig = Some(fp.eig)]
                            /\ results' = Some(iv_results("liml", fit,
                                                          Some(fit.kappa)))
                     /\ pc' = "estimated"
                     /\ err' = err
    /\ UNCHANGED <<args, df, fp, ret, read>>

-----------------------------------------------------------------------------
(* get_vce *)

\* a raw sandwich estimate: floating point leaves the two triangles of the
\* product unequal, upper entries up, lower entries lo
RawVce(k, up, lo) ==
    [i \in 1..k |-> [j \in 1..k |->
        IF i < j THEN up ELSE IF i > j THEN lo ELSE up + lo + 1]]

\* get_vce's symmetrization left out: the raw estimate over 1
symmetrize_skipped(raw, k) ==
    [num |-> raw, den |-> 1]

\* (vce + vce.T) / 2, as numerators over the denominator 2
symmetrize(raw, k) ==
    [num |-> [i \in 1..k |-> [j \in 1..k |-> raw[i][j] + raw[j][i]]],
     den |-> 2]

\* label both axes of the matrix with the regressor names
_wrapSigma(Sigma, cols) ==
    [num |-> Sigma.num, den |-> Sigma.den, index |-> cols]

\* the correction multiplied into the VCE twice
scale_vce_twice(vce, num, den) ==
    [vce EXCEPT
        !.num = [i \in DOMAIN vce.num |-> [j \in DOMAIN vce.num[i] |->
                    vce.num[i][j] * num * num]],
        !.den = @ * den * den]

\* vce *= vce_correct
scale_vce(vce, num, den) ==
    [vce EXCEPT
        !.num = [i \in DOMAIN vce.num |-> [j \in DOMAIN vce.num[i] |->
                    vce.num[i][j] * num]],
        !.den = @ * den]

\* IVReg._prep_inference_mats with the two matrices taking each other's place
_prep_inference_mats_swapped(s) ==
    IF IsIV(s) THEN [inner |-> Val(s.Xtrue), resid |-> Val(s.Xhat)]
    ELSE [inner |-> Val(s.x), resid |-> Val(s.x)]

\* IVReg overrides _prep_inference_mats: (Xhat, Xtrue); RegBase: (x, x)
_prep_inference_mats(s) ==
    IF IsIV(s) THEN [inner |-> Val(s.Xhat), resid |-> Val(s.Xtrue)]
    ELSE [inner |-> Val(s.x), resid |-> Val(s.x)]

\* why the estimator of this vce_type cannot run on the worker's data: the
\* dispatch ends in a bare ValueError for a kind it does not know, the
\* cluster and spatial estimators read a column that is None, and _get_h
\* multiplies a row of the LIML instrument matrix into the LIML bread
vce_failure(s, mats) ==
    IF s.vce_type \notin valid_vce
    THEN [exc |-> "ValueError", cause |-> "invalid_vce"]
    ELSE IF s.vce_type = "cluster" /\ IsNone(s.cluster_id)
    THEN [exc |-> "TypeError", cause |-> "cluster_id_is_None"]
    ELSE IF s.vce_type = "shac" /\ IsNone(s.shac_x_col)
    THEN [exc |-> "AttributeError", cause |-> "shac_x_is_None"]
    ELSE IF /\ s.vce_type \in {"hc2", "hc3"}
            /\ IsIV(s) /\ s.iv_method = "liml"
            /\ Len(mats.inner.columns) # Len(mats.resid.columns)
    THEN [exc |-> "Exception", cause |-> "dot_shape_mismatch"]
    ELSE NoErr

\* what the estimator of the kind is computed from: the bread and the
\* residuals, and for every kind but the homoskedastic one the matrix of the
\* inner sum (the meat of the sandwich)
vce_inputs(vce_type, xpx_inv, resid, X_inner_sum) ==
    [bread |-> xpx_inv, resid |-> resid,
     meat  |-> IF vce_type = "None" THEN None ELSE Some(X_inner_sum)]

GetVce ==
    /\ pc = "estimated"
    /\ LET mats == _prep_inference_mats(self)
           k    == Len(mats.resid.columns)
           bad  == vce_failure(self, mats)
           resid == [X |-> mats.resid, beta |-> Val(Val(results).beta)]
           from == vce_inputs(self.vce_type, Val(Val(results).xpx_inv), resid,
                              mats.inner)
           Sigma == _wrapSigma(symmetrize(RawVce(k, fp.up, fp.lo), k),
                               mats.resid.columns)
       IN  IF bad # NoErr
           THEN /\ pc' = "failed"
                /\ err' = bad
                /\ results' = results
           ELSE /\ results' = Some([Val(results) EXCEPT
                        !.vce = Some([num |-> Sigma.num, den |-> Sigma.den,
                                      index |-> Sigma.index,
                                      meat |-> from.meat,
                                      bread |-> from.bread]),
                        !.yhat = Some(resid),
                        !.resid = Some(resid),
                        !.sample = self.sample])
                /\ pc' = "vce"
                /\ err' = err
    /\ UNCHANGED <<args, df, fp, self, ret, read>>

-----------------------------------------------------------------------------
(* set_dof and inference *)

\* RegBase._set_NK, and IVReg._set_NK adding the columns of w
_set_NK(s) ==
    LET x == Val(s.x)
        grp == IF ~IsNone(s.A) /\ ~_fe_nested_in_cluster(s.cluster_id, s.A)
               THEN Cardinality(Distinct(Val(s.A))) ELSE 0
        inc == IF IsIV(s) /\ ~IsNone(s.w) THEN Len(Val(s.w).columns) ELSE 0
    IN  [N |-> x.n, K |-> Len(x.columns) + grp + inc,
         _nocons |-> IF ~IsNone(s.A) THEN TRUE ELSE s.nocons,
         _sst |-> IF ~IsNone(s.A) THEN "y_raw" ELSE "y"]

\* the estimator family's degrees of freedom and VCE correction
dof_for(s, N, K) ==
    IF s.vce_type \in {"None", "robust", "hc1"} THEN df_std(N, K)
    ELSE IF s.vce_type \in {"hc2", "hc3"} THEN df_hc23(N, K)
    ELSE IF s.vce_type = "cluster" THEN df_cluster(N, K, Val(s.cluster_id))
    ELSE df_shac(N, K)

SetDof ==
    /\ pc = "vce"
    /\ LET nk == _set_NK(self)
           d  == dof_for(self, nk.N, nk.K)
           r0 == [Val(results) EXCEPT !._nocons = Some(nk._nocons),
                                      !._sst = Some(nk._sst)]
       IN  IF d.raised
           THEN /\ pc' = "failed"
                /\ err' = [exc |-> d.exc, cause |-> "zero_degrees_of_freedom"]
                /\ results' = Some(r0)
           ELSE /\ results' = Some([r0 EXCEPT
                        !.g = d.g,
                        !.N = Some(nk.N), !.K = Some(nk.K),
                        !.df_t = Some(d.df), !._df_r = Some(d.df),
                        !._vce_correct = Some(<<d.num, d.den>>),
                        !.vce = Some(scale_vce(Val(r0.vce), d.num, d.den))])
                /\ pc' = "dof"
                /\ err' = err
    /\ UNCHANGED <<args, df, fp, self, ret, read>>

\* se, t-stats, p-values and the confidence interval are derived from the
\* diagonal of the stored VCE and from df_t; main then returns self.results
Inference ==
    /\ pc = "dof"
    /\ LET r   == Val(results)
           vce == Val(r.vce)
           se  == [index |-> vce.index,
                   sq |-> [i \in DOMAIN vce.num |-> <<vce.num[i][i], vce.den>>]]
           t   == [se |-> se, beta |-> Val(r.beta)]
       IN  results' = Some([r EXCEPT
                !.se = Some(se), !.t_stat = Some(t),
                !.pt = Some([t_stat |-> t, df |-> Val(r.df_t)]),
                !.ci_lo = Some([t_stat |-> t, df |-> Val(r.df_t)]),
                !.ci_hi = Some([t_stat |-> t, df |-> Val(r.df_t)])])
    /\ ret' = results'
    /\ pc' = "done"
    /\ UNCHANGED <<err, args, df, fp, self, read>>

-----------------------------------------------------------------------------
(* Results properties read by the caller *)

\* Results.df_r: the stored _df_r, else N - K
df_r(r) == IF ~IsNone(r._df_r) THEN Val(r._df_r) ELSE Val(r.N) - Val(r.K)

-----------------------------------------------------------------------------
(* Calls *)

ShacArg == [x |-> "lon", y |-> "lat", band |-> 1, kern |-> "unif"]

RegArgs(vces, clusters, shacs, groups, singles, conses, weights) ==
    [fn : {"reg"}, y_name : {"y"}, x_name : {<<"x1">>},
     z_name : {<<>>}, w_name : {<<>>},
     a_name : groups, nosingles : singles,
     iv_method : {"None"}, _kappa_debug : {None},
     vce_type : vces, cluster : clusters, shac : shacs,
     addcons : conses, nocons : {FALSE}, awt_name : weights]

IVArgs(vces, clusters, shacs, groups, singles, conses, weights, methods, kappas, zs, ws) ==
    [fn : {"ivreg"}, y_name : {"y"}, x_name : {<<"x1">>},
     z_name : zs, w_name : ws,
     a_name : groups, nosingles : singles,
     iv_method : methods, _kappa_debug : kappas,
     vce_type : vces, cluster : clusters, shac : shacs,
     addcons : conses, nocons : {FALSE}, awt_name : weights]

InitWith(argset, tables, numerics) ==
    /\ pc = "entry"
    /\ err = NoErr
    /\ args \in argset
    /\ df \in tables
    /\ fp \in numerics
    /\ self = NoWorker
    /\ results = None
    /\ ret = None
    /\ read = None

Next ==
    \/ Construct
    \/ SetSample
    \/ Estimate
    \/ GetVce
    \/ SetDof
    \/ Inference

AllNumerics == Numerics(BOOLEAN, KappaEigVals, 0..MaxVce, 0..MaxVce)
\* a call whose matrices invert, with an asymmetric raw VCE
FineNumerics == Numerics({FALSE}, {2}, {0}, {MaxVce})

\* every configuration of the VCE kind and of the IV method
ConfigArgs ==
    RegArgs(valid_vce \cup {"hc4"}, {"None", "c"}, {None, Some(ShacArg)},
            {"None", "g"}, {TRUE}, {FALSE, TRUE}, {"None"})
    \cup
    IVArgs(valid_vce \cup {"hc4"}, {"None", "c"}, {None, Some(ShacArg)},
           {"None"}, {TRUE}, {FALSE, TRUE}, {"None"},
           {"2sls", "liml", "gmm"}, {None, Some(0), Some(7)},
           {<<"z1">>, <<"z1", "z2">>}, {<<>>, <<"w1">>})

ConfigTables == TablesOver(MaxRows, OneGroup(MaxRows), Alternating(MaxRows), {}, 0)

Init == InitWith(ConfigArgs, ConfigTables, AllNumerics)

Spec == Init /\ [][Next]_vars

-----------------------------------------------------------------------------
(* Configuration claims, checked under Spec *)

ClusterGiven == args.cluster # "None"
ShacGiven == args.shac # None
Built == pc \in {"constructed", "sampled", "estimated", "vce", "dof", "done"}
FailedWith(causes) == pc = "failed" /\ err.cause \in causes

\* what the VCE conflict rule asks of the arguments of the call
MustRaiseVce ==
    \/ args.vce_type \notin
          {"None", "robust", "hc1", "hc2", "hc3", "cluster", "shac"}
    \/ ClusterGiven /\ ShacGiven
    \/ ClusterGiven /\ args.vce_type \notin {"None", "cluster"}
    \/ ShacGiven /\ args.vce_type \notin {"None", "shac"}

\* C1: _set_vce_type raises a ValueError exactly when the vce_type is not a
\* valid kind, or cluster and shac are both given, or cluster (shac) is given
\* with an explicit vce_type other than 'cluster' ('shac'); otherwise the
\* worker's vce_type is 'cluster' if cluster is given, 'shac' if shac is
\* given, and the caller's vce_type if neither is.
C1_VceResolution ==
    pc # "entry" =>
        IF MustRaiseVce
        THEN /\ FailedWith({"invalid_vce", "vce_conflict"})
             /\ err.exc = "ValueError"
             /\ (err.cause = "invalid_vce") = (args.vce_type \notin valid_vce)
        ELSE /\ ~FailedWith({"invalid_vce", "vce_conflict"})
             /\ self.vce_type = IF ClusterGiven THEN "cluster"
                                ELSE IF ShacGiven THEN "shac"
                                ELSE args.vce_type

\* a spatial config given with an explicit, different kind was refused
C1_Witness ==
    /\ FailedWith({"vce_conflict"})
    /\ ShacGiven /\ ~ClusterGiven /\ args.vce_type = "robust"

\* nothing of the Sample Builder has run on the worker
NothingSampled ==
    /\ IsNone(self.sample)
    /\ IsNone(self.y) /\ IsNone(self.x) /\ IsNone(self.z) /\ IsNone(self.w)
    /\ IsNone(self.A) /\ IsNone(self.cluster_id) /\ IsNone(self.AWT)

\* C2 as stated: every configuration error, the unsupported IV method
\* included, ends the call before set_sample has started.
C2_AllConfigErrorsAtEntry ==
    FailedWith({"invalid_vce", "vce_conflict", "unsupported_iv_method"})
        => NothingSampled

\* C2, amended: an invalid VCE kind and a cluster/shac/vce_type conflict end
\* the call in the constructor, before set_sample has started; an unsupported
\* IV method ends it in estimate, after set_sample has built the sample mask
\* and the columns, and before a Results object exists.
C2_ConfigErrorTiming ==
    /\ FailedWith({"invalid_vce", "vce_conflict"})
          => NothingSampled /\ self = NoWorker /\ IsNone(results)
    /\ FailedWith({"unsupported_iv_method"})
          => ~IsNone(self.sample) /\ ~IsNone(self.y) /\ IsNone(results)
    /\ (args.fn = "ivreg" /\ args.iv_method \notin {"2sls", "liml"}
            /\ ~MustRaiseVce)
          => pc \in {"entry", "constructed", "sampled", "failed"}

\* both kinds of configuration error have happened
C2_Witness ==
    /\ FailedWith({"unsupported_iv_method"})
    /\ args.iv_method = "gmm"
    /\ Len(Val(self.sample)) = MaxRows

\* C3 as stated: an unsupported iv_method ends ivreg with a ValueError and no
\* Results object is produced.
C3_UnsupportedMethodValueError ==
    (args.fn = "ivreg" /\ args.iv_method \notin {"2sls", "liml"}
        /\ pc \in {"failed", "done"})
    => /\ pc = "failed"
       /\ err.exc = "ValueError"
       /\ IsNone(ret)

\* C4: in the LIML path the kappa stored on Results is the debug override if
\* one is given (even when exactly identified), else 1 if the number of
\* excluded instruments equals the number of endogenous regressors, else the
\* eigenvalue-derived value; and it is the kappa beta was formed with.
C4_KappaPrecedence ==
    (~IsNone(results) /\ args.fn = "ivreg" /\ args.iv_method = "liml")
    => LET r == Val(results)
           expected ==
              IF args._kappa_debug # None THEN Val(args._kappa_debug)
              ELSE IF Len(args.x_name) = Len(args.z_name) THEN 1
              ELSE fp.eig
       IN  /\ r.kappa = Some(expected)
           /\ Val(r.beta).kappa = r.kappa
           /\ Val(r.xpx_inv).kappa = r.kappa

\* an override of 0 won over exact identification in a completed call
C4_Witness ==
    /\ pc = "done"
    /\ args.iv_method = "liml"
    /\ args._kappa_debug = Some(0)
    /\ Len(args.x_name) = Len(args.z_name)
    /\ Val(ret).kappa = Some(0)

\* C5 as stated: the Results of ivreg always has a kappa attribute, and it is
\* 1 whenever iv_method='2sls'.
C5_KappaAlwaysPresent ==
    (pc = "done" /\ args.fn = "ivreg")
    => /\ ~IsNone(Val(ret).kappa)
       /\ args.iv_method = "2sls" => Val(ret).kappa = Some(1)

\* C8: the VCE stored on Results is symmetric, after get_vce and after the
\* scaling of set_dof, for every VCE kind, for reg and for ivreg.
C8_VceSymmetric ==
    (~IsNone(results) /\ ~IsNone(Val(results).vce))
    => LET vce == Val(Val(results).vce)
           k   == Len(vce.index)
       IN  /\ DOMAIN vce.num = 1..k
           /\ \A i, j \in 1..k : vce.num[i][j] = vce.num[j][i]

\* a returned cluster VCE of an IV call, two columns or more, whose raw
\* estimate was not symmetric and which set_dof has scaled
C8_Witness ==
    /\ pc = "done"
    /\ args.fn = "ivreg" /\ self.vce_type = "cluster"
    /\ fp.up # fp.lo
    /\ Len(Val(Val(ret).vce).index) >= 2
    /\ Val(Val(ret)._vce_correct) # <<1, 1>>

-----------------------------------------------------------------------------
(* Degrees-of-freedom claims, checked under SpecDof: every assignment of   *)
(* rows to groups and clusters, with and without a group key and a cluster *)
(* key, which may name the same column                                     *)

DofArgs ==
    RegArgs({"None"}, {"None", "c", "g"}, {None}, {"None", "g"}, BOOLEAN,
            {FALSE}, {"None"})
    \cup
    IVArgs({"None"}, {"None", "c", "g"}, {None}, {"None", "g"}, {TRUE},
           {FALSE}, {"None"}, {"2sls"}, {None}, {<<"z1">>}, {<<"w1">>})

DofTables == TablesOver(MaxRows, AnyGroups(MaxRows), AnyClusters(MaxRows), {"y"}, MaxNulls)

InitDof == InitWith(DofArgs, DofTables, FineNumerics)

SpecDof == InitDof /\ [][Next]_vars

\* the rows of the caller's table that the mask of the worker keeps
InSample == {i \in 1..Len(df) : Val(self.sample)[i]}
ValuesIn(col, rows) == {df[i][col] : i \in rows}

\* C6: with the cluster VCE, df_t and df_r on Results are G - 1, G the number
\* of distinct cluster values among the in-sample rows, whatever N and K are,
\* with and without absorbed fixed effects, for reg and for ivreg.
C6_ClusterDof ==
    (~IsNone(results) /\ self.vce_type = "cluster"
        /\ ~IsNone(Val(results).df_t))
    => LET r == Val(results)
           G == Cardinality(ValuesIn(args.cluster, InSample))
       IN  /\ r.df_t = Some(G - 1)
           /\ df_r(r) = G - 1
           /\ r.g = Some(G)

\* a returned IV result with absorbed groups whose G - 1 is not N - K
C6_Witness ==
    /\ pc = "done"
    /\ self.vce_type = "cluster" /\ args.fn = "ivreg" /\ args.a_name = "g"
    /\ Val(ret).df_t = Some(1)
    /\ Val(Val(ret).N) - Val(Val(ret).K) # 1

\* columns of the regressor matrices that count in K before any group
\* adjustment: x, and for ivreg also w
BaseK == Len(Val(self.x).columns)
         + (IF args.fn = "ivreg" THEN Len(Val(self.w).columns) ELSE 0)

GroupsInSample == ValuesIn(args.a_name, InSample)

\* every cluster maps to exactly one group
EachClusterOneGroup ==
    \A c \in ValuesIn(args.cluster, InSample) :
        Cardinality(ValuesIn(args.a_name,
            {i \in InSample : df[i][args.cluster] = c})) = 1

\* every group maps to exactly one cluster
EachGroupOneCluster ==
    \A grp \in GroupsInSample :
        Cardinality(ValuesIn(args.cluster,
            {i \in InSample : df[i][args.a_name] = grp})) = 1

KWith(nested) ==
    BaseK + (IF args.a_name # "None" /\ ~nested
             THEN Cardinality(GroupsInSample) ELSE 0)

HasK == ~IsNone(results) /\ ~IsNone(Val(results).K)

\* C7 as stated: K grows by the number of distinct in-sample groups unless
\* the cluster key and the group key are the same column or every cluster
\* maps to exactly one group.
C7_NestedWhenClusterHasOneGroup ==
    HasK => Val(Val(results).K) =
                KWith(/\ args.cluster # "None"
                      /\ (args.cluster = args.a_name \/ EachClusterOneGroup))

\* C7, amended: when fixed effects are absorbed, K grows by the number of
\* distinct in-sample groups unless the cluster key and the group key are the
\* same column or every group maps to exactly one cluster (lies within a
\* single cluster); with no cluster key the adjustment is always applied, and
\* with no group key K is never adjusted.
C7_NestedWhenGroupInOneCluster ==
    HasK => Val(Val(results).K) =
                KWith(/\ args.cluster # "None"
                      /\ (args.cluster = args.a_name \/ EachGroupOneCluster))

\* a returned result where a group spans two clusters while every cluster
\* holds one group, so K was adjusted
C7_Witness ==
    /\ pc = "done"
    /\ args.a_name = "g" /\ args.cluster = "c"
    /\ EachClusterOneGroup /\ ~EachGroupOneCluster
    /\ Val(Val(ret).K) = BaseK + Cardinality(GroupsInSample)

-----------------------------------------------------------------------------
(* Sample Builder claims, checked under SpecSample: tables with null cells *)
(* in any column, with and without a group key, a cluster key, a spatial   *)
(* config, a weight, and the instruments of ivreg                          *)

SampleArgs ==
    RegArgs({"None"}, {"None", "c"}, {None}, {"None"}, {TRUE},
            {FALSE}, {"None", "wt"})
    \cup
    RegArgs({"None"}, {"None"}, {None}, {"g"}, BOOLEAN,
            {FALSE}, {"None", "wt"})
    \cup
    RegArgs({"None"}, {"None"}, {Some(ShacArg)}, {"None"}, {TRUE},
            {FALSE}, {"None"})
    \cup
    IVArgs({"hc2"}, {"None"}, {None}, {"None", "g"}, {TRUE},
           {FALSE}, {"None"}, {"2sls"}, {None}, {<<"z1">>}, {<<"w1">>})

SampleTables ==
    TablesOver(MaxRows, AnyGroups(MaxRows), Alternating(MaxRows), Cols \ {"z2"}, MaxNulls)

InitSample == InitWith(SampleArgs, SampleTables, FineNumerics)

SpecSample == InitSample /\ [][Next]_vars

\* the columns the non-None arguments of the call name
NamedCols ==
    {args.y_name} \cup SeqToSet(args.x_name)
    \cup (IF args.a_name # "None" THEN {args.a_name} ELSE {})
    \cup (IF args.cluster # "None" THEN {args.cluster} ELSE {})
    \cup (IF args.shac # None
          THEN {Val(args.shac).x, Val(args.shac).y} ELSE {})
    \cup (IF args.awt_name # "None" THEN {args.awt_name} ELSE {})
    \cup (IF args.fn = "ivreg"
          THEN SeqToSet(args.z_name) \cup SeqToSet(args.w_name) ELSE {})

NoNullIn(i) == \A col \in NamedCols : df[i][col] # "None"

DropsSingletons == args.nosingles /\ args.a_name # "None"

\* C9: the sample mask has one boolean per row of the caller's table, in row
\* order; a row is True only if no column named by a non-None argument (y, x,
\* group key, cluster key, spatial x and y, weight, and z and w for ivreg) is
\* null in it; without singleton dropping the mask is exactly that
\* conjunction; and it is the mask returned on Results.
C9_SampleMask ==
    /\ ~IsNone(self.sample) =>
          LET mask == Val(self.sample)
          IN  /\ DOMAIN mask = 1..Len(df)
              /\ \A i \in 1..Len(df) : mask[i] => NoNullIn(i)
              /\ ~DropsSingletons =>
                    \A i \in 1..Len(df) : mask[i] = NoNullIn(i)
    /\ pc = "done" => Val(ret).sample = self.sample

\* a returned IV result whose mask leaves out a row for a null instrument
\* and keeps the others
C9_Witness ==
    /\ pc = "done"
    /\ args.fn = "ivreg"
    /\ \E i \in 1..Len(df) :
          /\ df[i]["w1"] = "None"
          /\ ~Val(Val(ret).sample)[i]
          /\ \A j \in 1..Len(df) : j # i => Val(Val(ret).sample)[j]

\* rows of group grp among the rows in rows
RowsOfGroup(grp, rows) == {i \in rows : df[i][args.a_name] = grp}

\* C10: with a group key and nosingles, every group with a row in the final
\* sample has at least two rows in it; a row is kept exactly when it has no
\* null in a named column and its group has at least two such rows (sizes
\* are counted after the non-null filter); and filtering the final sample
\* again removes no row.
C10_NoSingletons ==
    (~IsNone(self.sample) /\ DropsSingletons)
    => LET mask    == Val(self.sample)
           nonnull == {i \in 1..Len(df) : NoNullIn(i)}
       IN  /\ \A i \in InSample :
                 Cardinality(RowsOfGroup(df[i][args.a_name], InSample)) >= 2
           /\ \A i \in 1..Len(df) :
                 mask[i] = (/\ i \in nonnull
                            /\ Cardinality(RowsOfGroup(df[i][args.a_name],
                                                       nonnull)) >= 2)
           /\ MaskAnd(mask, flag_nonsingletons(df, args.a_name, mask)) = mask

\* a group of two rows in the table was left with one row by the non-null
\* filter and dropped, while another group stayed
C10_Witness ==
    /\ pc \in {"sampled", "estimated", "vce", "dof", "done"}
    /\ DropsSingletons
    /\ InSample # {}
    /\ \E i \in 1..Len(df) :
          /\ NoNullIn(i) /\ i \notin InSample
          /\ Cardinality(RowsOfGroup(df[i][args.a_name], 1..Len(df))) = 2

-----------------------------------------------------------------------------
(* Claims on the caller's table and on the constant, checked under         *)
(* SpecCons: reg and ivreg with and without addcons, a group key, a weight *)
(* and included instruments, on tables with a null cell in y and on the    *)
(* table whose y is null in every row (an empty sample); calls that end in *)
(* the constructor, in estimate and normally                               *)

\* the table of n rows in which column col is null in every row
NullColumnTables(n, col) ==
    {MkTable(n, gs, cs, (1..n) \X {col}) : gs \in OneGroup(n), cs \in Alternating(n)}

ConsArgs ==
    RegArgs({"None", "hc4"}, {"None"}, {None}, {"None", "g"}, {TRUE},
            {FALSE, TRUE}, {"None", "wt"})
    \cup
    IVArgs({"None"}, {"None"}, {None}, {"None", "g"}, {TRUE},
           {FALSE, TRUE}, {"None", "wt"}, {"2sls", "liml"}, {None},
           {<<"z1">>}, {<<>>, <<"w1">>})

ConsTables ==
    TablesOver(MaxRows, OneGroup(MaxRows), Alternating(MaxRows), {"y"}, MaxNulls)
    \cup NullColumnTables(MaxRows, "y")

InitCons ==
    InitWith(ConsArgs, ConsTables, Numerics(BOOLEAN, {2}, {0}, {MaxVce}))

SpecCons == InitCons /\ [][Next]_vars

\* C11: no step of a call to reg or ivreg, of a successful or of a failed
\* call, changes the caller's table (its rows, columns and values) or the
\* arguments: the constant, the float coercion, the demeaning and the
\* weighting act on the call's own copies, so a second call with the same
\* table and arguments starts from the same input.
C11_CallerTableUnchanged == [][df' = df /\ args' = args]_vars

\* a returned reg result whose x took the constant and the weights, from a
\* table with a null cell
C11_Witness ==
    /\ pc = "done"
    /\ args.fn = "reg" /\ args.addcons /\ args.awt_name = "wt"
    /\ Val(self.x).columns = <<"x1", "_cons">>
    /\ Val(self.x).ops = <<"float64", "weight">>
    /\ \E i \in 1..Len(df) : df[i]["y"] = "None"
    /\ \A i \in 1..Len(df) : DOMAIN df[i] = Cols

\* the constant is requested and not overridden by a group key
ConsWanted == args.a_name = "None" /\ args.addcons

Sampled == pc \in {"sampled", "estimated", "vce", "dof", "done"}
   \/ (pc = "failed" /\ ~IsNone(self.sample))

\* the columns of the frame var after set_sample if '_cons' is appended to
\* the named columns exactly when wanted and var is the target
AppendedCols(var, names) ==
    names \o (IF ConsWanted /\ self.add_constant_to = var
              THEN <<"_cons">> ELSE <<>>)

NoConsIn(labelled) == "_cons" \notin SeqToSet(labelled.index)

\* C14 as stated: '_cons' is appended, as the last column, to x for reg and
\* to w for ivreg exactly when no group key is given and addcons is
\* requested, and is the sole column only of a target without columns.
C14_ConsAppended ==
    Sampled =>
        /\ Val(self.x).columns = AppendedCols("x", args.x_name)
        /\ args.fn = "ivreg" =>
              /\ Val(self.z).columns = AppendedCols("z", args.z_name)
              /\ Val(self.w).columns = AppendedCols("w", args.w_name)

\* the sample of the call has no row
EmptySample == InSample = {}

\* C14, amended: '_cons' is added if and only if no group key is given and
\* addcons is requested, to x for reg and to w for ivreg, never to x or z of
\* ivreg; it is appended as the last column when the target has a column and
\* the sample has a row, and it replaces the target, becoming its sole
\* column, when the target has no column or the sample has no row.  With a
\* group key addcons has no effect, and no '_cons' appears in beta or the VCE.
C14_ConsAppendedUnlessEmpty ==
    /\ Sampled =>
          LET target == self.add_constant_to
              cols(var, names) ==
                  IF ConsWanted /\ var = target /\ EmptySample
                  THEN <<"_cons">> ELSE AppendedCols(var, names)
          IN  /\ target = (IF args.fn = "ivreg" THEN "w" ELSE "x")
              /\ Val(self.x).columns = cols("x", args.x_name)
              /\ args.fn = "ivreg" =>
                    /\ Val(self.z).columns = cols("z", args.z_name)
                    /\ Val(self.w).columns = cols("w", args.w_name)
    /\ (~IsNone(results) /\ ~ConsWanted) =>
          /\ NoConsIn(Val(Val(results).beta))
          /\ ~IsNone(Val(results).vce) => NoConsIn(Val(Val(results).vce))
    /\ (pc = "done" /\ ConsWanted) =>
          LET idx == Val(Val(ret).vce).index
          IN  /\ idx[Len(idx)] = "_cons"
              /\ Val(Val(ret).beta).index = idx
              /\ Cardinality({k \in 1..Len(idx) : idx[k] = "_cons"}) = 1

\* the constant became the sole column of the empty w of a returned ivreg
\* result, and its coefficient comes last in beta
C14_Witness ==
    /\ pc = "done" /\ args.fn = "ivreg" /\ args.w_name = <<>>
    /\ ConsWanted /\ ~EmptySample
    /\ Val(self.w).columns = <<"_cons">>
    /\ Val(self.x).columns = <<"x1">>
    /\ Val(Val(ret).beta).index = <<"x1", "_cons">>

-----------------------------------------------------------------------------
(* The lazily derived statistics of Results, read by the caller after the  *)
(* call has returned.  A property getter is modelled by the value it       *)
(* returns and the object it leaves; a statistic's value is the record of  *)
(* what it was computed from.                                              *)

Got(v, r) == [value |-> v, obj |-> r]

\* Results.summary
summary(r) ==
    IF ~IsNone(r._summary) THEN Got(r._summary, r)
    ELSE LET out == Some([coeff |-> Val(r.beta), se |-> Val(r.se),
                          t |-> Val(r.t_stat), p |-> Val(r.pt),
                          CI_low |-> Val(r.ci_lo), CI_high |-> Val(r.ci_hi)])
         IN  Got(out, [r EXCEPT !._summary = out])

\* Results.df_m: K, less one unless _nocons
df_m(r) ==
    IF ~IsNone(r._df_m) THEN Got(r._df_m, r)
    ELSE LET v == Some(Val(r.K) - (IF Val(r._nocons) THEN 0 ELSE 1))
         IN  Got(v, [r EXCEPT !._df_m = v])

\* Results.df_r as a getter: the stored _df_r, else N - K computed and stored
get_df_r(r) ==
    IF ~IsNone(r._df_r) THEN Got(r._df_r, r)
    ELSE LET v == Some(Val(r.N) - Val(r.K))
         IN  Got(v, [r EXCEPT !._df_r = v])

\* Results.ssr computed from resid on every read
ssr_recomputed(r) ==
    LET v == Some([resid |-> Val(r.resid)])
    IN  Got(v, [r EXCEPT !._ssr = v])

\* Results.ssr
ssr(r) ==
    IF ~IsNone(r._ssr) THEN Got(r._ssr, r)
    ELSE LET v == Some([resid |-> Val(r.resid)])
         IN  Got(v, [r EXCEPT !._ssr = v])

\* Results.r2: reads the ssr property, which may store _ssr
r2(r) ==
    IF ~IsNone(r._r2) THEN Got(r._r2, r)
    ELSE LET s == ssr(r)
             v == Some([ssr |-> Val(s.value), sst |-> Val(s.obj._sst)])
         IN  Got(v, [s.obj EXCEPT !._r2 = v])

\* Results.r2_a
r2_a(r) ==
    IF ~IsNone(r._r2_a) THEN Got(r._r2_a, r)
    ELSE LET s == ssr(r)
             v == Some([ssr |-> Val(s.value), sst |-> Val(s.obj._sst),
                        N |-> Val(s.obj.N), K |-> Val(s.obj.K)])
         IN  Got(v, [s.obj EXCEPT !._r2_a = v])

\* f_test: the F statistic and its p-value are functions of V, beta and the
\* denominator degrees of freedom
f_test(V, beta, df_d) == [V |-> V, beta |-> beta, df_d |-> df_d]

\* Results.Ftest on the named columns (jointly significant)
Ftest(r, cols) ==
    LET d == get_df_r(r)
    IN  Got(f_test([cols |-> cols, vce |-> Val(d.obj.vce)],
                   [cols |-> cols, beta |-> Val(d.obj.beta)],
                   Val(d.value)),
            d.obj)

NotCons(c) == c # "_cons"

\* Results.F: one Ftest call on the slope columns sets both _F and _pF
F(r) ==
    IF ~IsNone(r._F) THEN Got(r._F, r)
    ELSE LET cols == SelectSeq(Val(r.vce).index, NotCons)
             ft   == Ftest(r, cols)
             f    == Some([stat |-> "F", test |-> ft.value])
             p    == Some([stat |-> "pF", test |-> ft.value])
         IN  Got(f, [ft.obj EXCEPT !._F = f, !._pF = p])

\* Results.pF: reads F when _pF is not set
pF(r) ==
    IF ~IsNone(r._pF) THEN Got(r._pF, r)
    ELSE LET f == F(r) IN Got(f.obj._pF, f.obj)

LazyStats == {"summary", "df_m", "df_r", "ssr", "r2", "r2_a", "F", "pF"}

\* the attribute a lazily derived statistic is stored in
CacheOf(stat) == "_" \o stat

\* attribute access on the returned Results
getattr(r, stat) ==
    CASE stat = "summary" -> summary(r)
      [] stat = "df_m"    -> df_m(r)
      [] stat = "df_r"    -> get_df_r(r)
      [] stat = "ssr"     -> ssr(r)
      [] stat = "r2"      -> r2(r)
      [] stat = "r2_a"    -> r2_a(r)
      [] stat = "F"       -> F(r)
      [] stat = "pF"      -> pF(r)

\* the caller reads one statistic of the Results it was returned
ReadStat ==
    /\ pc = "done"
    /\ \E stat \in LazyStats :
          LET g == getattr(Val(ret), stat)
          IN  /\ ret' = Some(g.obj)
              /\ results' = Some(g.obj)
              /\ read' = Some([stat |-> stat, value |-> g.value])
    /\ UNCHANGED <<pc, err, args, df, fp, self>>

ModifiableAttrs == {"beta", "vce", "resid", "N", "K"}

\* another value of an attribute, assigned by the caller
setattr(r, attr) ==
    LET beta2 == [Val(r.beta) EXCEPT !.fitted = @ \cup {"edited"}]
    IN  CASE attr = "beta"  -> [r EXCEPT !.beta = Some(beta2)]
          [] attr = "vce"   ->
                [r EXCEPT !.vce = Some([Val(r.vce) EXCEPT
                    !.num = [i \in DOMAIN @ |-> [j \in DOMAIN @[i] |-> 0]],
                    !.den = 1])]
          [] attr = "resid" ->
                [r EXCEPT !.resid = Some([Val(r.resid) EXCEPT !.beta = beta2])]
          [] attr = "N"     -> [r EXCEPT !.N = Some(0)]
          [] attr = "K"     -> [r EXCEPT !.K = Some(0)]

\* the caller overwrites beta, vce, resid, N or K of the returned Results
Modify ==
    /\ pc = "done"
    /\ \E attr \in ModifiableAttrs :
          /\ ret' = Some(setattr(Val(ret), attr))
          /\ results' = ret'
    /\ UNCHANGED <<pc, err, args, df, fp, self, read>>

NextRead ==
    \/ Next
    \/ ReadStat
    \/ Modify

\* reg with the homoskedastic and with the cluster VCE, and 2SLS, each with a
\* constant
LazyArgs ==
    RegArgs({"None"}, {"None", "c"}, {None}, {"None"}, {TRUE}, {TRUE},
            {"None"})
    \cup
    IVArgs({"None"}, {"None"}, {None}, {"None"}, {TRUE}, {TRUE}, {"None"},
           {"2sls"}, {None}, {<<"z1">>}, {<<"w1">>})

InitLazy == InitWith(LazyArgs, ConfigTables, FineNumerics)

SpecLazy == InitLazy /\ [][NextRead]_vars

CacheAttrs == {CacheOf(stat) : stat \in LazyStats}

\* C12: on a returned Results, an attribute that stores a lazily derived
\* statistic (df_m, df_r, ssr, r2, r2_a, F, pF, summary) is never overwritten
\* once it is set, by a read or by a change of beta, vce, resid, N or K; a
\* read returns what is stored after it, which is what was stored before it
\* if anything was; and _F and _pF are set together, from one Ftest result.
C12_ComputedOnce ==
    [][(pc = "done" /\ pc' = "done") =>
          LET r  == Val(ret)
              rn == Val(ret')
          IN  /\ \A c \in CacheAttrs : ~IsNone(r[c]) => rn[c] = r[c]
              /\ ~IsNone(read') =>
                    LET c == CacheOf(Val(read').stat)
                    IN  /\ Val(read').value = rn[c]
                        /\ ~IsNone(r[c]) => Val(read').value = r[c]
              /\ IsNone(rn._F) = IsNone(rn._pF)
              /\ ~IsNone(rn._F) => Val(rn._F).test = Val(rn._pF).test
      ]_vars

\* pF was read before F, then vce, beta and resid were changed and ssr and
\* pF read again: the reads returned the values stored before the changes
C12_Witness ==
    /\ pc = "done"
    /\ ~IsNone(read) /\ Val(read).stat = "pF"
    /\ LET r == Val(ret)
       IN  /\ ~IsNone(r._F) /\ ~IsNone(r._ssr)
           /\ Val(read).value = r._pF
           /\ Val(r._pF).test.V.vce # Val(r.vce)
           /\ Val(r._F).test.beta.beta # Val(r.beta)
           /\ Val(r._ssr).resid # Val(r.resid)

-----------------------------------------------------------------------------
(* Further claims on the configuration and on the VCE, checked under Spec *)

\* C13 as stated: whenever the worker is constructed, its vce_type is
\* 'cluster' only if a cluster column was given and 'shac' only if a spatial
\* config was given, so get_vce never calls the cluster or the spatial
\* estimator with a cluster id or coordinates that are None.
C13_ClusterAndShacHaveTheirData ==
    /\ Built =>
          /\ self.vce_type = "cluster" => ClusterGiven
          /\ self.vce_type = "shac" => ShacGiven
    /\ ~FailedWith({"cluster_id_is_None", "shac_x_is_None"})

\* the correction of the claim for a VCE kind, as numerator and denominator
ExpectedCorrect(kind, N, K, G) ==
    IF kind \in {"None", "robust", "hc1"} THEN <<N, N - K>>
    ELSE IF kind \in {"hc2", "hc3", "shac"} THEN <<1, 1>>
    ELSE <<(N - 1) * G, (N - K) * (G - 1)>>

\* entry (i, j) of the symmetrized raw estimate of this call, times two
SymRaw2(k, i, j) == RawVce(k, fp.up, fp.lo)[i][j] + RawVce(k, fp.up, fp.lo)[j][i]

\* the rationals a/b and c/d are equal
SameRatio(a, b, c, d) == a * d = c * b

\* C15: after get_vce the stored VCE is the symmetrized estimate; set_dof
\* multiplies the correction into it once, the correction being N/(N-K) for
\* none/robust/hc1, 1 for hc2/hc3/shac and ((N-1)/(N-K))*(G/(G-1)) for
\* cluster, with df = N-K except for cluster, N and K as stored on Results;
\* and the standard errors, t-stats, p-values and confidence bounds exist
\* only after that and are derived from the corrected VCE and that df.
C15_DofCorrectionOnce ==
    (~IsNone(results) /\ ~IsNone(Val(results).vce)) =>
        LET r   == Val(results)
            vce == Val(r.vce)
            k   == Len(vce.index)
        IN  /\ pc = "vce" =>
                  /\ \A i, j \in 1..k :
                        SameRatio(vce.num[i][j], vce.den, SymRaw2(k, i, j), 2)
                  /\ IsNone(r._vce_correct) /\ IsNone(r.se)
            /\ pc \in {"dof", "done"} =>
                  LET N == Val(r.N)
                      K == Val(r.K)
                      G == IF IsNone(r.g) THEN 0 ELSE Val(r.g)
                      c == ExpectedCorrect(self.vce_type, N, K, G)
                  IN  /\ SameRatio(Val(r._vce_correct)[1],
                                   Val(r._vce_correct)[2], c[1], c[2])
                      /\ \A i, j \in 1..k :
                            SameRatio(vce.num[i][j], vce.den,
                                      SymRaw2(k, i, j) * c[1], 2 * c[2])
                      /\ self.vce_type # "cluster" => r.df_t = Some(N - K)
            /\ pc = "dof" => IsNone(r.se)
            /\ pc = "done" =>
                  /\ Val(r.se).index = vce.index
                  /\ \A i \in 1..k :
                        Val(r.se).sq[i] = <<vce.num[i][i], vce.den>>
                  /\ Val(r.t_stat).se = Val(r.se)
                  /\ Val(r.pt) = [t_stat |-> Val(r.t_stat), df |-> Val(r.df_t)]
                  /\ Val(r.ci_lo).df = Val(r.df_t)
                  /\ Val(r.ci_hi).df = Val(r.df_t)

\* a returned result with the robust VCE of reg with absorbed groups: the
\* correction N/(N-K) is not 1 and the estimate is not zero
C15_Witness ==
    /\ pc = "done"
    /\ self.vce_type = "robust" /\ args.fn = "reg" /\ args.a_name = "g"
    /\ fp.up + fp.lo > 0
    /\ LET r == Val(ret)
       IN  /\ Val(r._vce_correct) = <<Val(r.N), Val(r.N) - Val(r.K)>>
           /\ Val(r.N) - Val(r.K) > 1
           /\ Val(r.K) > 1

\* x columns followed by the columns of w as set_sample left them
XThenW == Val(self.x).columns \o Val(self.w).columns

\* C16: in a 2SLS call, yhat and resid on Results are computed from the true
\* matrix (the x columns followed by w, none of them fitted); the meat of
\* every VCE kind that has one (robust, hc1, hc2, hc3, cluster, shac) is the
\* fitted matrix (every x column replaced by its projection, the w columns as
\* they are); and beta and the VCE carry the same labels in the same order,
\* the x columns and then the w columns.
C16_TrueForResidFittedForMeat ==
    (args.fn = "ivreg" /\ args.iv_method = "2sls" /\ ~IsNone(results)
        /\ ~IsNone(Val(results).vce))
    => LET r   == Val(results)
           vce == Val(r.vce)
       IN  /\ Val(self.x).columns = args.x_name
           /\ Val(r.resid).X.columns = XThenW
           /\ Val(r.resid).X.fitted = {}
           /\ Val(r.yhat) = Val(r.resid)
           /\ Val(r.resid).beta = Val(r.beta)
           /\ self.vce_type # "None" =>
                 /\ ~IsNone(vce.meat)
                 /\ Val(vce.meat).columns = XThenW
                 /\ Val(vce.meat).fitted = SeqToSet(args.x_name)
           /\ self.vce_type = "None" => IsNone(vce.meat)
           /\ Val(r.beta).index = XThenW
           /\ Val(r.beta).fitted = SeqToSet(args.x_name)
           /\ vce.index = Val(r.beta).index

\* a returned 2SLS result with the hc2 VCE, an included instrument and the
\* constant: three labels, one fitted column in the meat
C16_Witness ==
    /\ pc = "done"
    /\ args.fn = "ivreg" /\ args.iv_method = "2sls"
    /\ self.vce_type = "hc2"
    /\ Val(Val(ret).vce).index = <<"x1", "w1", "_cons">>
    /\ Val(Val(Val(ret).vce).meat).fitted = {"x1"}
    /\ Val(Val(ret).resid).X.fitted = {}

=============================================================================
